---- MODULE Spec2Model ----
(***************************************************************************)
(* Model of extras/prepareDynamoPackage.py: the Dynamo package deployer.   *)
(*                                                                         *)
(* main() is sequential filesystem orchestration.  The state is the part   *)
(* of the filesystem main() reads and writes (template, build output,      *)
(* staging directory, the Dynamo Core and Dynamo Revit install             *)
(* directories), the process's position in main() and its standard        *)
(* output; the exit status follows from how main() ended.  Each action is  *)
(* one block of main().  failures records which of the recoverable         *)
(* operations of the current run failed, and fs0 the filesystem as the     *)
(* current run found it; run counts the invocations.                       *)
(*                                                                         *)
(* A directory tree is a function from relative paths (sequences of        *)
(* names) to entries; the root is the path << >>, and a directory that     *)
(* does not exist is the empty function.  Text is a sequence of atoms,     *)
(* each atom standing for a run of characters: "$", "Dynamo", "Version"    *)
(* and so on, so that the two placeholder tokens are atom sequences and    *)
(* every string built from atoms is a real string with the same matches.   *)
(*                                                                         *)
(* Environment assumptions: APPDATA is set (lines 96, 113 read it), the    *)
(* template and the build output hold writable entries, and the parent of  *)
(* the staging directory is writable.                                      *)
(***************************************************************************)
EXTENDS Integers, Sequences, FiniteSets, TLC

VARIABLES argc, installVersion, fs, env, pc, log, failures, run, fs0

vars == <<argc, installVersion, fs, env, pc, log, failures, run, fs0>>

\* ------------------------------------------------------------------ bounds

\* Most pieces a template manifest text of Init is concatenated from.
MaxPieces == 3

\* Number of successive invocations with the same parameters.
MaxRuns == 2

\* ------------------------------------------------------------------- text

\* The placeholder tokens of the template manifest (lines 68, 69).
VersionToken == <<"$", "Version", "$">>

DynamoVersionToken == <<"$", "Dynamo", "Version", "$">>

\* packageVersion = "0.1.0" (line 63).
packageVersion == <<"0", ".", "1", ".", "0">>

\* str.replace(old, new): every non-overlapping occurrence, left to right.
RECURSIVE Replace(_, _, _)
Replace(s, old, new) ==
  IF Len(s) < Len(old) THEN s
  ELSE IF SubSeq(s, 1, Len(old)) = old
       THEN new \o Replace(SubSeq(s, Len(old) + 1, Len(s)), old, new)
       ELSE <<Head(s)>> \o Replace(Tail(s), old, new)

\* A plausible slip: only the version placeholder is substituted.
SubstituteVersionOnly(text, dynamoInstallVersion) ==
  Replace(text, VersionToken, packageVersion)

\* Lines 68-69: the two replacements, in order.
SubstitutePlaceholders(text, dynamoInstallVersion) ==
  Replace(Replace(text, VersionToken, packageVersion),
          DynamoVersionToken, dynamoInstallVersion)

\* ------------------------------------------------------------------ trees

Dir == [kind |-> "dir", data |-> << >>]

File(d) == [kind |-> "file", data |-> d]

NoDir == [p \in {} |-> Dir]

Exists(tree) == << >> \in DOMAIN tree

\* The tree holding the given <<path, entry>> pairs.
TreeOf(pairs) ==
  [p \in {e[1] : e \in pairs} |-> (CHOOSE e \in pairs : e[1] = p)[2]]

Restrict(tree, keep) == [p \in DOMAIN tree \cap keep |-> tree[p]]

IsPrefix(p, q) == Len(p) <= Len(q) /\ SubSeq(q, 1, Len(p)) = p

\* The paths of P and all their ancestors, the root included.
AncClosure(P) == UNION {{SubSeq(p, 1, k) : k \in 0..Len(p)} : p \in P}

\* tree with every entry of sub placed at p \o (its path); sub's entries win.
Graft(tree, p, sub) ==
  LET placed == {p \o r : r \in DOMAIN sub}
  IN  [q \in DOMAIN tree \cup placed |->
         IF q \in placed THEN sub[SubSeq(q, Len(p) + 1, Len(q))] ELSE tree[q]]

\* os.makedirs(path, exist_ok=True) for a path directly under the root.
MakeDir(tree, name) ==
  IF <<name>> \in DOMAIN tree THEN tree ELSE Graft(tree, <<name>>, TreeOf({<<<< >>, Dir>>}))

\* --------------------------------------------------------- shutil on trees

\* A plausible slip: rmtree without the permission repair, so that a
\* read-only entry stops the removal as a held-open one does.
RmtreePlain(tree, locked, ro) ==
  LET blocked == (locked \cup ro) \cap DOMAIN tree
  IN  IF blocked = {}
      THEN {[tree |-> NoDir, raised |-> FALSE]}
      ELSE {[tree |-> Restrict(tree, K), raised |-> TRUE] :
              K \in {S \in SUBSET DOMAIN tree :
                       AncClosure(blocked) \subseteq S /\ AncClosure(S) = S}}

\* shutil.rmtree(path, onerror=make_writable) with the make_writable of lines
\* 26-28: a read-only entry is made writable and removed; an entry that still
\* cannot be removed (held open) raises out of rmtree.  What is left then
\* depends on the order os.scandir lists the entries: the blocked entries,
\* their ancestors, and any entries not yet visited.
RmtreeRetry(tree, locked, ro) ==
  LET blocked == locked \cap DOMAIN tree
  IN  IF blocked = {}
      THEN {[tree |-> NoDir, raised |-> FALSE]}
      ELSE {[tree |-> Restrict(tree, K), raised |-> TRUE] :
              K \in {S \in SUBSET DOMAIN tree :
                       AncClosure(blocked) \subseteq S /\ AncClosure(S) = S}}

\* shutil.rmtree(path, onerror=make_writable) with the make_writable of lines
\* 88-93, which swallows every error: rmtree visits every entry, removes
\* what it can and never raises.  A held-open entry stays, with its
\* ancestors (a directory that is not empty cannot be removed); the root
\* also stays when its parent directory cannot be written.
RmtreeSwallow(tree, locked, parentWritable) ==
  LET blocked == locked \cap DOMAIN tree
      keep == AncClosure(blocked) \cup (IF parentWritable THEN {} ELSE {<< >>})
  IN  [tree |-> Restrict(tree, keep), raised |-> FALSE]

\* shutil.copytree(src, dst): os.makedirs(dst) raises when dst exists
\* (FileExistsError) or cannot be created; otherwise dst becomes a copy.
Copytree(src, dst, parentWritable) ==
  IF Exists(dst) \/ ~parentWritable
  THEN [tree |-> dst, raised |-> TRUE]
  ELSE [tree |-> src, raised |-> FALSE]

\* A plausible slip: an existing same-named directory is merged into
\* (copytree with dirs_exist_ok) instead of being removed first.
PopulateBinMerge(staging, source) ==
  LET copied == {p \in DOMAIN source : p # << >>}
  IN  [q \in DOMAIN staging \cup {<<"bin">> \o p : p \in copied} |->
         IF q \in {<<"bin">> \o p : p \in copied}
         THEN source[Tail(q)] ELSE staging[q]]

\* Lines 77-85: every top-level file of the source is copied into bin
\* (overwriting a same-named file), every top-level directory replaces the
\* same-named directory of bin (rmtree, then copytree).
PopulateBin(staging, source) ==
  LET dirs == {p \in DOMAIN source : Len(p) = 1 /\ source[p].kind = "dir"}
      cleared == Restrict(staging,
                   {q \in DOMAIN staging :
                      \A d \in dirs : ~IsPrefix(<<"bin">> \o d, q)})
      copied == {p \in DOMAIN source : p # << >>}
  IN  [q \in DOMAIN cleared \cup {<<"bin">> \o p : p \in copied} |->
         IF q \in {<<"bin">> \o p : p \in copied}
         THEN source[Tail(q)] ELSE cleared[q]]

\* ------------------------------------------------------------- exit status

\* `return` from main(): the interpreter exits with status 0.
SuccessStatus == 0

\* A plausible slip (the spec's "naive variant"): log and return.
ReturnInsteadOfExit == SuccessStatus

\* sys.exit(1) (line 44).
BuildFailureStatus == 1

\* An exception that leaves main() uncaught: traceback, status 1.
UncaughtStatus == 1

NotExited == 0 - 1

Terminal == pc \in {"returned", "sysexit", "crashed"}

ExitStatus ==
  CASE pc = "returned" -> SuccessStatus
    [] pc = "sysexit"  -> BuildFailureStatus
    [] pc = "crashed"  -> UncaughtStatus
    [] OTHER           -> NotExited

\* ----------------------------------------------------------------- inputs

PkgJson == <<"pkg.json">>

\* len(sys.argv): the script name and three, four or five parameters.
ArgCounts == {4, 5, 6}

\* The pieces a template manifest is concatenated from: the placeholders,
\* their parts, and other text.
Pieces ==
  {VersionToken, DynamoVersionToken, <<"$">>, <<"Dynamo">>, <<"Version">>, <<"x">>}

RECURSIVE TextsOf(_)
TextsOf(n) ==
  IF n = 0 THEN {<< >>}
  ELSE LET shorter == TextsOf(n - 1)
       IN  shorter \cup {t \o piece : t \in shorter, piece \in Pieces}

Texts == TextsOf(MaxPieces)

\* The manifest shipped with the tool: both placeholders, in JSON text.
TypicalManifest == <<"x", "$", "Version", "$", "x", "$", "Dynamo", "Version", "$", "x">>

\* dynamoInstallVersion values: two of the documented form (4.1, and 0.1,
\* which is part of 0.1.0), the empty string, and strings holding parts of
\* a placeholder.
TypicalVersion == <<"4", ".", "1">>

InstallVersions ==
  { TypicalVersion, <<"0", ".", "1">>, << >>, <<"Version">>, <<"$">>,
    <<"$", "Version", "$">> }

TemplateBase(m) ==
  TreeOf({ <<<< >>, Dir>>, <<PkgJson, File(m)>>, <<<<"dyf">>, Dir>> })

TemplateNoManifest == TreeOf({ <<<< >>, Dir>>, <<<<"dyf">>, Dir>> })

\* A template that already provides bin, with a win-x64 directory and an
\* a.dll of its own.
TemplateWithBin(m) ==
  TreeOf({ <<<< >>, Dir>>, <<PkgJson, File(m)>>,
           <<<<"bin">>, Dir>>, <<<<"bin", "a.dll">>, File(<<"template a">>)>>,
           <<<<"bin", "win-x64">>, Dir>>,
           <<<<"bin", "win-x64", "old.dll">>, File(<<"old">>)>> })

Templates ==
  {NoDir, TemplateNoManifest, TemplateBase(TypicalManifest), TemplateWithBin(TypicalManifest)}

\* The build output: two top-level files and a nested directory.
SourceFull ==
  TreeOf({ <<<< >>, Dir>>, <<<<"a.dll">>, File(<<"A">>)>>,
           <<<<"b.pdb">>, File(<<"B">>)>>,
           <<<<"win-x64">>, Dir>>, <<<<"win-x64", "n.dll">>, File(<<"N">>)>> })

Sources == {NoDir, SourceFull}

\* A staging directory left by an earlier build.
OldStaging ==
  TreeOf({ <<<< >>, Dir>>, <<PkgJson, File(<<"stale">>)>>,
           <<<<"bin">>, Dir>>, <<<<"bin", "gone.dll">>, File(<<"G">>)>> })

\* A prior installation at a destination.
OldInstall ==
  TreeOf({ <<<< >>, Dir>>, <<PkgJson, File(<<"stale">>)>>,
           <<<<"bin">>, Dir>>, <<<<"bin", "stale.dll">>, File(<<"S">>)>> })

\* A directory with the entries of it that are held open (locked) or
\* read-only, and whether its parent directory can be written.
Place(tree, locked, ro, writable) ==
  [tree |-> tree, locked |-> locked, ro |-> ro, writable |-> writable]

StagingPlaces ==
  { Place(NoDir, {}, {}, TRUE),
    Place(OldStaging, {}, {}, TRUE),
    Place(OldStaging, {}, {PkgJson}, TRUE),
    Place(OldStaging, {<<"bin", "gone.dll">>}, {}, TRUE),
    Place(OldStaging, {<<"bin", "gone.dll">>}, {PkgJson}, TRUE) }

DestPlaces ==
  { Place(NoDir, {}, {}, TRUE),
    Place(NoDir, {}, {}, FALSE),
    Place(OldInstall, {}, {}, TRUE),
    Place(OldInstall, {}, {PkgJson}, TRUE),
    Place(OldInstall, {<<"bin", "stale.dll">>}, {}, TRUE),
    Place(OldInstall, {}, {}, FALSE) }

Setup(n, v, template, source, staging, core, revit) ==
  /\ argc = n
  /\ installVersion = v
  /\ fs = [template |-> template, source |-> source, staging |-> staging.tree,
           core |-> core.tree, revit |-> revit.tree]
  /\ env = [locked   |-> [staging |-> staging.locked, core |-> core.locked,
                          revit |-> revit.locked],
            ro       |-> [staging |-> staging.ro, core |-> core.ro,
                          revit |-> revit.ro],
            writable |-> [staging |-> staging.writable, core |-> core.writable,
                          revit |-> revit.writable]]
  /\ pc = "start"
  /\ log = << >>
  /\ failures = {}
  /\ run = 1
  /\ fs0 = fs

\* Every environment, with the shipped manifest and a typical version.
InitEnvironments ==
  \E n \in ArgCounts, template \in Templates, source \in Sources,
     staging \in StagingPlaces, core \in DestPlaces, revit \in DestPlaces :
    Setup(n, TypicalVersion, template, source, staging, core, revit)

\* Every manifest text and install version, in a clean environment.
InitTexts ==
  \E m \in Texts, v \in InstallVersions :
    Setup(5, v, TemplateBase(m), SourceFull, Place(NoDir, {}, {}, TRUE),
          Place(NoDir, {}, {}, TRUE), Place(NoDir, {}, {}, TRUE))

Init == InitEnvironments \/ InitTexts

\* ---------------------------------------------------------------- actions

Say(lines) == log' = log \o lines

\* len(sys.argv) != 5 is the usage error (line 10).
UsageOkAtLeast(n) == n >= 5

UsageOk(n) == n = 5

\* Lines 8-12: the parameter count.
CheckArgs ==
  /\ pc = "start"
  /\ IF UsageOk(argc)
     THEN /\ pc' = "reset"
          /\ Say(<<"Dynamo package creation started">>)
     ELSE /\ pc' = "returned"
          /\ Say(<<"Dynamo package creation started", "Missing package config params">>)
  /\ UNCHANGED <<argc, installVersion, fs, env, failures, run, fs0>>

\* Lines 23-33: remove the staging directory of an earlier run.
ResetStaging ==
  /\ pc = "reset"
  /\ IF Exists(fs.staging)
     THEN \E out \in RmtreeRetry(fs.staging, env.locked.staging, env.ro.staging) :
            /\ fs' = [fs EXCEPT !.staging = out.tree]
            /\ env' = [env EXCEPT !.ro.staging = @ \cap DOMAIN out.tree]
            /\ IF out.raised
               THEN /\ Say(<<"Warning: Could not remove existing dynamo-package folder",
                             "Attempting to continue anyway...">>)
                    /\ failures' = failures \cup {"remove staging"}
               ELSE UNCHANGED <<log, failures>>
     ELSE UNCHANGED <<fs, env, log, failures>>
  /\ pc' = "check"
  /\ UNCHANGED <<argc, installVersion, run, fs0>>

\* Lines 35-44: the build output and the template must exist.
CheckBuild ==
  /\ pc = "check"
  /\ IF Exists(fs.source) /\ Exists(fs.template)
     THEN /\ pc' = "materialize"
          /\ UNCHANGED log
     ELSE /\ pc' = "sysexit"
          /\ Say(<<"Incomplete build.", "Expected build output at:",
                   "Template folder:",
                   "Build may not have completed successfully, or output path is different.">>)
  /\ UNCHANGED <<argc, installVersion, fs, env, failures, run, fs0>>

\* Lines 46-53: copy the template to the staging directory, then make sure
\* bin, dyf and extra exist.  copytree is not guarded: its exception leaves
\* main().
MaterializeStaging ==
  /\ pc = "materialize"
  /\ LET r == Copytree(fs.template, fs.staging, env.writable.staging)
     IN  IF r.raised
         THEN /\ pc' = "crashed"
              /\ UNCHANGED fs
         ELSE /\ pc' = "validate"
              /\ fs' = [fs EXCEPT !.staging =
                          MakeDir(MakeDir(MakeDir(r.tree, "bin"), "dyf"), "extra")]
  /\ UNCHANGED <<argc, installVersion, env, log, failures, run, fs0>>

\* Lines 55-59: the staging directory must hold pkg.json.
ValidateManifest ==
  /\ pc = "validate"
  /\ IF PkgJson \in DOMAIN fs.staging
     THEN /\ pc' = "substitute"
          /\ UNCHANGED log
     ELSE /\ pc' = "returned"
          /\ Say(<<"Incomplete build. Missing pkg.json in template">>)
  /\ UNCHANGED <<argc, installVersion, fs, env, failures, run, fs0>>

\* Lines 61-74: read pkg.json, replace the placeholders, write it back.
SubstituteVersion ==
  /\ pc = "substitute"
  /\ fs' = [fs EXCEPT !.staging[PkgJson] =
              File(SubstitutePlaceholders(@.data, installVersion))]
  /\ Say(<<"Package version set to: 0.1.0">>)
  /\ pc' = "populate"
  /\ UNCHANGED <<argc, installVersion, env, failures, run, fs0>>

\* Lines 76-85: copy the build output into the staging bin folder.
PopulateBinaries ==
  /\ pc = "populate"
  /\ fs' = [fs EXCEPT !.staging = PopulateBin(@, fs.source)]
  /\ pc' = "remove core"
  /\ UNCHANGED <<argc, installVersion, env, log, failures, run, fs0>>

\* Lines 98-103 and 115-119: remove a prior installation at destination d.
\* The except branch prints `warning` when rmtree raises.
RemoveInstall(d, warning, next) ==
  /\ IF Exists(fs[d])
     THEN LET r == RmtreeSwallow(fs[d], env.locked[d], env.writable[d])
          IN  /\ fs' = [fs EXCEPT ![d] = r.tree]
              /\ env' = [env EXCEPT !.ro[d] = @ \cap DOMAIN r.tree]
              /\ IF r.raised THEN Say(warning) ELSE UNCHANGED log
              /\ failures' = IF Exists(r.tree)
                             THEN failures \cup {"remove " \o d} ELSE failures
     ELSE UNCHANGED <<fs, env, log, failures>>
  /\ pc' = next
  /\ UNCHANGED <<argc, installVersion, run, fs0>>

\* A plausible slip: the copy is not guarded, and its exception leaves main().
AfterCopyErrorUncaught(next) == "crashed"

\* Lines 108-110 and 124-126: the exception is caught and main() goes on.
AfterCopyError(next) == next

\* Lines 105-110 and 121-126: copy the staging directory to destination d.
CopyInstall(d, complete, error, next) ==
  /\ LET r == Copytree(fs.staging, fs[d], env.writable[d])
     IN  IF r.raised
         THEN /\ Say(error)
              /\ failures' = failures \cup {"copy " \o d}
              /\ pc' = AfterCopyError(next)
              /\ UNCHANGED fs
         ELSE /\ Say(complete)
              /\ fs' = [fs EXCEPT ![d] = r.tree]
              /\ pc' = next
              /\ UNCHANGED failures
  /\ UNCHANGED <<argc, installVersion, env, run, fs0>>

RemoveCore ==
  /\ pc = "remove core"
  /\ RemoveInstall("core",
       <<"Warning: Could not remove existing package folder",
         "This may be because Dynamo is running. The package will be updated in place.">>,
       "copy core")

CopyCore ==
  /\ pc = "copy core"
  /\ CopyInstall("core", <<"Dynamo package complete  Dynamo Core">>,
       <<"Error copying to Dynamo Core", "Make sure Dynamo is not running and try again.">>,
       "remove revit")

RemoveRevit ==
  /\ pc = "remove revit"
  /\ RemoveInstall("revit",
       <<"Warning: Could not remove existing Revit package folder">>, "copy revit")

CopyRevit ==
  /\ pc = "copy revit"
  /\ CopyInstall("revit", <<"Dynamo package complete  Dynamo Revit">>,
       <<"Error copying to Dynamo Revit",
         "Make sure Dynamo Revit is not running and try again.">>,
       "returned")

\* The deployer is invoked again with the same parameters.
Invoke ==
  /\ Terminal
  /\ run < MaxRuns
  /\ run' = run + 1
  /\ pc' = "start"
  /\ log' = << >>
  /\ failures' = {}
  /\ fs0' = fs
  /\ UNCHANGED <<argc, installVersion, fs, env>>

Next ==
  \/ CheckArgs
  \/ ResetStaging
  \/ CheckBuild
  \/ MaterializeStaging
  \/ ValidateManifest
  \/ SubstituteVersion
  \/ PopulateBinaries
  \/ RemoveCore
  \/ CopyCore
  \/ RemoveRevit
  \/ CopyRevit
  \/ Invoke

Spec == Init /\ [][Next]_vars

\* ----------------------------------------------------------------- claims

\* sub occurs in s (the empty sequence occurs in every sequence).
Contains(s, sub) ==
  \E i \in 0..(Len(s) - Len(sub)) : SubSeq(s, i + 1, i + Len(sub)) = sub

\* The subtree of tree rooted at path p, as a tree of its own.
Subtree(tree, p) ==
  LET under == {q \in DOMAIN tree : IsPrefix(p, q)}
  IN  [r \in {SubSeq(q, Len(p) + 1, Len(q)) : q \in under} |-> tree[p \o r]]

Dests == {"core", "revit"}

Other(d) == IF d = "core" THEN "revit" ELSE "core"

\* What held when the current run started.
FourParams == argc = 5

BuildPresent == Exists(fs0.source) /\ Exists(fs0.template)

ManifestPresent == PkgJson \in DOMAIN fs0.template

StagingRemovable == env.locked.staging \cap DOMAIN fs0.staging = {}

\* Destination d cannot be deleted (an entry of it is held open) or cannot
\* be written.
Impaired(d) == env.locked[d] \cap DOMAIN fs0[d] # {} \/ ~env.writable[d]

TemplateManifest == fs0.template[PkgJson].data

\* A non-empty string of digits and dots, such as 4.1.
IsVersionNumber(v) ==
  /\ v # << >>
  /\ \A i \in 1..Len(v) : v[i] \in {"0", "1", "2", "3", "4", "5", "6", "7", "8", "9", "."}

\* A $ of the text belongs to a $Version$ and a $DynamoVersion$ at once.
TokensShareDollar(text) ==
  \/ Contains(text, VersionToken \o Tail(DynamoVersionToken))
  \/ Contains(text, DynamoVersionToken \o Tail(VersionToken))

\* Destination d holds the staging tree: the processed manifest and every
\* entry of the build output under bin.
Deployed(d) ==
  /\ fs[d] = fs.staging
  /\ PkgJson \in DOMAIN fs[d]
  /\ fs[d][PkgJson].data = SubstitutePlaceholders(TemplateManifest, installVersion)
  /\ \A p \in DOMAIN fs.source \ {<< >>} :
       /\ <<"bin">> \o p \in DOMAIN fs[d]
       /\ fs[d][<<"bin">> \o p] = fs.source[p]

\* C1 as stated: after the version substitution the staging manifest holds
\* 0.1.0 and installVersion and neither placeholder, whatever the manifest
\* text and whatever installVersion.
C1_SubstitutionAnyText ==
  pc = "populate" =>
    LET m == fs.staging[PkgJson].data
    IN  /\ Contains(m, packageVersion)
        /\ Contains(m, installVersion)
        /\ ~Contains(m, VersionToken)
        /\ ~Contains(m, DynamoVersionToken)

\* C1 as amended: after the version substitution, (a) when installVersion is
\* a non-empty string of digits and dots the staging manifest holds neither
\* placeholder; (b) it holds 0.1.0 when the template manifest held $Version$;
\* (c) it holds installVersion when the template manifest held
\* $DynamoVersion$ and no $ shared by the two placeholders.
C1_SubstitutionAmended ==
  pc = "populate" =>
    LET m == fs.staging[PkgJson].data
    IN  /\ IsVersionNumber(installVersion) =>
             ~Contains(m, VersionToken) /\ ~Contains(m, DynamoVersionToken)
        /\ Contains(TemplateManifest, VersionToken) => Contains(m, packageVersion)
        /\ (Contains(TemplateManifest, DynamoVersionToken)
              /\ ~TokensShareDollar(TemplateManifest)) => Contains(m, installVersion)

C1_Witness ==
  /\ pc = "populate"
  /\ IsVersionNumber(installVersion)
  /\ Contains(TemplateManifest, VersionToken)
  /\ Contains(TemplateManifest, DynamoVersionToken)
  /\ TemplateManifest # TypicalManifest
  /\ Contains(fs.staging[PkgJson].data, packageVersion)
  /\ Contains(fs.staging[PkgJson].data, installVersion)
  /\ fs.staging[PkgJson].data # TemplateManifest

\* C2: a run whose parameter count is not four ends at the usage message,
\* and the filesystem stays as it was when the run started.
C2_UsageErrorNoEffect ==
  ~FourParams => fs = fs0 /\ pc \in {"start", "returned"}

C2_Witness ==
  /\ ~FourParams
  /\ pc = "returned"
  /\ BuildPresent
  /\ Exists(fs.staging)
  /\ Exists(fs.core)
  /\ log = <<"Dynamo package creation started", "Missing package config params">>

\* C3: in a four-parameter run that starts without the build output, the
\* destinations stay as they were, no deployment step is reached, and the
\* process ends with a non-zero status.
C3_MissingBuildFails ==
  (FourParams /\ ~Exists(fs0.source)) =>
    /\ fs.core = fs0.core /\ fs.revit = fs0.revit
    /\ pc \in {"start", "reset", "check", "sysexit"}
    /\ Terminal => ExitStatus # 0

C3_Witness ==
  /\ FourParams
  /\ ~Exists(fs0.source)
  /\ Exists(fs0.template)
  /\ Exists(fs0.core)
  /\ pc = "sysexit"
  /\ ExitStatus = 1

\* C4: a run that finds no manifest in the staging directory after copying
\* the template leaves the destinations alone and ends with a non-zero
\* status.
C4_MissingManifestFatal ==
  (Terminal /\ FourParams /\ BuildPresent /\ ~ManifestPresent /\ StagingRemovable) =>
    /\ fs.core = fs0.core /\ fs.revit = fs0.revit
    /\ ExitStatus # 0

C6_SecondRunIdempotent ==
  (run = 2 /\ pc = "returned" /\ FourParams /\ BuildPresent /\ ManifestPresent
     /\ StagingRemovable /\ env.writable.core /\ env.writable.revit) =>
    /\ fs.staging = fs0.staging
    /\ \A d \in Dests :
         /\ fs[d] = fs0[d]
         /\ \A p \in DOMAIN fs.staging : p \in DOMAIN fs[d] /\ fs[d][p] = fs.staging[p]
         /\ (DOMAIN fs[d] \ DOMAIN fs.staging) \subseteq AncClosure(env.locked[d])

\* C7: after the binaries are populated the staging bin folder holds every
\* entry of the build output, and each of its top-level directories is an
\* exact copy: nothing a same-named directory of the template held remains.
C7_BinariesPopulated ==
  pc = "remove core" =>
    /\ \A p \in DOMAIN fs.source \ {<< >>} :
         /\ <<"bin">> \o p \in DOMAIN fs.staging
         /\ fs.staging[<<"bin">> \o p] = fs.source[p]
    /\ \A d \in {p \in DOMAIN fs.source : Len(p) = 1 /\ fs.source[p].kind = "dir"} :
         Subtree(fs.staging, <<"bin">> \o d) = Subtree(fs.source, d)

C7_Witness ==
  /\ pc = "remove core"
  /\ <<"bin", "win-x64", "old.dll">> \in DOMAIN fs.template
  /\ <<"bin", "win-x64", "old.dll">> \notin DOMAIN fs.staging
  /\ <<"bin", "win-x64", "n.dll">> \in DOMAIN fs.staging
  /\ fs.staging[<<"bin", "a.dll">>] = fs.source[<<"a.dll">>]
  /\ fs.staging[<<"bin", "b.pdb">>] = fs.source[<<"b.pdb">>]

\* C8: a run whose removal of the old staging directory failed, with the
\* preconditions satisfied, is not aborted: it ends normally, having
\* processed the manifest and gone through the destinations.
C8_CleanupFailureProceeds ==
  (Terminal /\ "remove staging" \in failures /\ FourParams /\ BuildPresent
     /\ ManifestPresent) =>
    /\ pc = "returned"
    /\ Contains(log, <<"Package version set to: 0.1.0">>)

\* The line main() prints for a failure it recovers from.
LogLineFor(failure) ==
  CASE failure = "remove staging" -> "Warning: Could not remove existing dynamo-package folder"
    [] failure = "remove core"    -> "Warning: Could not remove existing package folder"
    [] failure = "copy core"      -> "Error copying to Dynamo Core"
    [] failure = "remove revit"   -> "Warning: Could not remove existing Revit package folder"
    [] failure = "copy revit"     -> "Error copying to Dynamo Revit"

\* C9: when the run ends, every failure it recovered from has its line in
\* the output; a failed removal of a prior installation has its warning.
C9_EveryFailureLogged ==
  Terminal => \A failure \in failures : Contains(log, <<LogLineFor(failure)>>)

\* C10: in a four-parameter run without the build output or the template,
\* an old staging directory that can be removed is gone from the existence
\* check on, and the run ends there without creating it again.
C10_ResetBeforeCheck ==
  (FourParams /\ ~BuildPresent /\ StagingRemovable) =>
    /\ pc \in {"start", "reset", "check", "sysexit"}
    /\ pc \in {"check", "sysexit"} => ~Exists(fs.staging)

C10_Witness ==
  /\ FourParams /\ ~BuildPresent /\ StagingRemovable
  /\ pc = "sysexit"
  /\ Exists(fs0.staging)
  /\ ~Exists(fs.staging)

====
